---- MODULE Spec2Model ----
(***************************************************************************)
(* Model of src/app.py: a Flask application whose handlers run on          *)
(* concurrently served requests (one thread per request) and share two     *)
(* module globals, global_error_rate and request_counter.                  *)
(*                                                                         *)
(* Numbers.  A Python float is a record [k, n]: k = "fin" with n the value *)
(* in tenths of a percent, or k = "nan" / "pinf" / "ninf".                 *)
(* Granularity.  A step is one Python statement that touches a shared      *)
(* global; statements that touch only request-local data are merged into   *)
(* the step that follows them.  `request_counter += 1` is a load and a     *)
(* store, two steps.                                                       *)
(* Requests.  A thread that has sent its response (pc = "done") keeps the   *)
(* request, its log records and its response until it takes the next       *)
(* request, so that they can be inspected.                                 *)
(***************************************************************************)
EXTENDS Integers, Sequences, FiniteSets, TLC

\* ---------------------------------------------------------------- bounds
\* the number of requests the clients send in a run
MaxRequests == 2

\* the server threads: two requests are served at the same time
Threads == {1, 2}

\* ---------------------------------------------------------------- floats
Fin(n) == [k |-> "fin", n |-> n]
Pct(p) == Fin(10 * p)
NaN == [k |-> "nan", n |-> 0]
PInf == [k |-> "pinf", n |-> 0]
NoVal == [k |-> "absent", n |-> 0]

\* app.py:91  global_error_rate = 3.0
DefaultErrorRate == Pct(3)

\* the range check with its lower bound forgotten
InRangeUpperOnly(x) ==
    \/ x.k = "fin" /\ x.n <= 1000

\* Python's chained comparison  0 <= x <= 100  on a float (false for nan)
InRange(x) ==
    \/ x.k = "fin" /\ 0 <= x.n /\ x.n <= 1000

\* ----------------------------------------------------------- JSON values
JVal(ty, n, s) == [ty |-> ty, n |-> n, s |-> s]
JInt(n) == JVal("int", n, "")
JFloat(tenths) == JVal("float", tenths, "")
JStr(s) == JVal("str", 0, s)
JBool(b) == JVal("bool", IF b THEN 1 ELSE 0, "")
JNull == JVal("null", 0, "")
JList == JVal("list", 0, "")
JDict == JVal("dict", 0, "")
\* an integer literal too large for a double, e.g. 1 followed by 400 zeros
JBigInt == JVal("bigint", 0, "")
\* json.loads accepts the literals NaN and Infinity
JNaN == JVal("nan", 0, "")
JInfinity == JVal("inf", 0, "")

\* float(str): the strings the model feeds it
StrToFloat(s) ==
    CASE s = "1.5" -> [ok |-> TRUE, val |-> Fin(15), exc |-> ""]
      [] s = "100" -> [ok |-> TRUE, val |-> Fin(1000), exc |-> ""]
      [] s = "nan" -> [ok |-> TRUE, val |-> NaN, exc |-> ""]
      [] OTHER -> [ok |-> FALSE, val |-> NoVal, exc |-> "ValueError"]

\* int(v) in place of float(v): the fraction of a float is dropped
PyFloatTruncated(v) ==
    CASE v.ty = "int" -> [ok |-> TRUE, val |-> Fin(10 * v.n), exc |-> ""]
      [] v.ty = "bool" -> [ok |-> TRUE, val |-> Fin(10 * v.n), exc |-> ""]
      [] v.ty = "float" -> [ok |-> TRUE, val |-> Fin(10 * (v.n \div 10)), exc |-> ""]
      [] v.ty \in {"nan", "str"} -> [ok |-> FALSE, val |-> NoVal, exc |-> "ValueError"]
      [] v.ty \in {"inf", "bigint"} -> [ok |-> FALSE, val |-> NoVal, exc |-> "OverflowError"]
      [] OTHER -> [ok |-> FALSE, val |-> NoVal, exc |-> "TypeError"]

\* Python's float(v) on a value decoded from JSON
PyFloat(v) ==
    CASE v.ty = "int" -> [ok |-> TRUE, val |-> Fin(10 * v.n), exc |-> ""]
      [] v.ty = "bool" -> [ok |-> TRUE, val |-> Fin(10 * v.n), exc |-> ""]
      [] v.ty = "float" -> [ok |-> TRUE, val |-> Fin(v.n), exc |-> ""]
      [] v.ty = "nan" -> [ok |-> TRUE, val |-> NaN, exc |-> ""]
      [] v.ty = "inf" -> [ok |-> TRUE, val |-> PInf, exc |-> ""]
      [] v.ty = "str" -> StrToFloat(v.s)
      [] v.ty = "bigint" -> [ok |-> FALSE, val |-> NoVal, exc |-> "OverflowError"]
      [] OTHER -> [ok |-> FALSE, val |-> NoVal, exc |-> "TypeError"]

\* numeric value of a JSON number as the client wrote it, in tenths
IsJsonNumber(v) == v.ty \in {"int", "float", "bigint", "nan", "inf"}
IsFiniteJsonNumber(v) == v.ty \in {"int", "float"}
JsonTenths(v) == IF v.ty = "int" THEN 10 * v.n ELSE v.n

\* ------------------------------------------------------- request bodies
NoBody == [kind |-> "none", has |-> FALSE, val |-> JNull]
\* a body that is not sent as application/json
NoJsonBody == [kind |-> "nojson", has |-> FALSE, val |-> JNull]
\* application/json body that does not parse
BadJsonBody == [kind |-> "badjson", has |-> FALSE, val |-> JNull]
\* a JSON value that is not an object
NonObjectBody(v) == [kind |-> "nonobject", has |-> FALSE, val |-> v]
\* a JSON object, with or without the key error_rate
ObjectBody(has, v) == [kind |-> "object", has |-> has, val |-> v]
FormBody == [kind |-> "form", has |-> FALSE, val |-> JNull]

ErrorRateValues ==
    { JInt(0), JFloat(15), JInt(100), JFloat(-5), JInt(101),
      JBigInt, JNaN, JStr("1.5"), JStr("abc"), JNull, JBool(FALSE) }

SetBodies ==
    { NoJsonBody, BadJsonBody, NonObjectBody(JList), ObjectBody(FALSE, JNull) }
    \cup { ObjectBody(TRUE, v) : v \in ErrorRateValues }

\* ---------------------------------------------------------- log records
\* The request id a log record carries: the uuid of before_request, the
\* numeric request_counter, or none.
NoId == [kind |-> "absent", v |-> 0]
UuidId(c) == [kind |-> "uuid", v |-> c]
CounterId(n) == [kind |-> "counter", v |-> n]
\* a log record whose 'request_id' field is request_counter; the number it
\* had when the record was written is not kept
CounterField == [kind |-> "counter", v |-> 0]

LogRec(sev, msg, rid) == [sev |-> sev, msg |-> msg, rid |-> rid, status |-> 0]

\* ------------------------------------------------------------ responses
BaseResp ==
    [status |-> 200, json |-> TRUE, error |-> "", message |-> "", etype |-> "",
     rid |-> NoId, old |-> NoVal, new |-> NoVal, cur |-> NoVal, total |-> -1]
NoResp == [BaseResp EXCEPT !.status = 0, !.json = FALSE]
OkResp(n) == [BaseResp EXCEPT !.rid = CounterId(n)]
ErrResp(status, error) == [BaseResp EXCEPT !.status = status, !.error = error]
ErrRespId(status, error, n) ==
    [BaseResp EXCEPT !.status = status, !.error = error, !.rid = CounterId(n)]
\* render_template(...): an HTML page
HtmlResp == [BaseResp EXCEPT !.json = FALSE]

\* ----------------------------------------------------------- exceptions
Exc(cls, msg) == [cls |-> cls, msg |-> msg]
NoExc == Exc("", "")

\* method resolution order of each exception class, up to Exception
Mro(cls) ==
    CASE cls = "KeyError" -> <<"KeyError", "LookupError", "Exception">>
      [] cls = "IndexError" -> <<"IndexError", "LookupError", "Exception">>
      [] cls = "ZeroDivisionError" ->
            <<"ZeroDivisionError", "ArithmeticError", "Exception">>
      [] cls = "OverflowError" ->
            <<"OverflowError", "ArithmeticError", "Exception">>
      [] cls = "ModuleNotFoundError" ->
            <<"ModuleNotFoundError", "ImportError", "Exception">>
      [] cls \in {"NotFound", "BadRequest", "MethodNotAllowed",
                  "UnsupportedMediaType"} ->
            <<cls, "HTTPException", "Exception">>
      [] cls = "Exception" -> <<"Exception">>
      [] OTHER -> <<cls, "Exception">>

\* the HTTP status code of an HTTPException class, 0 for other exceptions
HttpCode(cls) ==
    CASE cls = "BadRequest" -> 400
      [] cls = "NotFound" -> 404
      [] cls = "MethodNotAllowed" -> 405
      [] cls = "UnsupportedMediaType" -> 415
      [] OTHER -> 0

\* handle_key_error registered for LookupError instead of KeyError
RegisteredLookupError(code, cls) ==
    CASE code = 400 /\ cls = "BadRequest" -> "bad_request"
      [] code = 404 /\ cls = "NotFound" -> "not_found"
      [] code = 500 /\ cls = "InternalServerError" -> "internal_error"
      [] code = 0 /\ cls = "ValueError" -> "handle_value_error"
      [] code = 0 /\ cls = "LookupError" -> "handle_key_error"
      [] code = 0 /\ cls = "Exception" -> "handle_generic_exception"
      [] OTHER -> ""

\* the handlers registered with @app.errorhandler: by status code (stored
\* under the code and its exception class) and by class (under code 0)
Registered(code, cls) ==
    CASE code = 400 /\ cls = "BadRequest" -> "bad_request"
      [] code = 404 /\ cls = "NotFound" -> "not_found"
      [] code = 500 /\ cls = "InternalServerError" -> "internal_error"
      [] code = 0 /\ cls = "ValueError" -> "handle_value_error"
      [] code = 0 /\ cls = "KeyError" -> "handle_key_error"
      [] code = 0 /\ cls = "Exception" -> "handle_generic_exception"
      [] OTHER -> ""

RECURSIVE FirstRegistered(_, _)
FirstRegistered(code, mro) ==
    IF mro = <<>> THEN ""
    ELSE IF Registered(code, Head(mro)) # "" THEN Registered(code, Head(mro))
    ELSE FirstRegistered(code, Tail(mro))

\* a lookup that ignores the handlers registered by status code
FindHandlerByClass(cls) == FirstRegistered(0, Mro(cls))

\* Flask's handler lookup: the handlers of the exception's code first, then
\* the handlers registered by class, each searched along the MRO
FindHandler(cls) ==
    LET byCode == IF HttpCode(cls) = 0 THEN ""
                  ELSE FirstRegistered(HttpCode(cls), Mro(cls))
    IN IF byCode # "" THEN byCode ELSE FirstRegistered(0, Mro(cls))

\* what each error handler logs and returns
bad_request(e, c) ==
    [log |-> LogRec("ERROR", "Bad request error", UuidId(c)),
     resp |-> [ErrResp(400, "Bad request") EXCEPT !.message = e.msg]]
not_found(e, c) ==
    [log |-> LogRec("ERROR", "Not found error", UuidId(c)),
     resp |-> ErrResp(404, "Endpoint not found")]
internal_error(e, c) ==
    [log |-> LogRec("ERROR", "Internal server error", UuidId(c)),
     resp |-> [ErrResp(500, "Internal server error")
                 EXCEPT !.message = "Something went wrong"]]
handle_value_error(e, c) ==
    [log |-> LogRec("ERROR", "ValueError occurred", UuidId(c)),
     resp |-> [ErrResp(400, "Value error") EXCEPT !.message = e.msg]]
handle_key_error(e, c) ==
    [log |-> LogRec("ERROR", "KeyError occurred", UuidId(c)),
     resp |-> [ErrResp(400, "Missing required key") EXCEPT !.message = e.msg]]
handle_generic_exception(e, c) ==
    [log |-> LogRec("ERROR", "Unhandled exception occurred", UuidId(c)),
     resp |-> [ErrResp(500, "An unexpected error occurred")
                 EXCEPT !.etype = e.cls]]

RunHandler(h, e, c) ==
    CASE h = "bad_request" -> bad_request(e, c)
      [] h = "not_found" -> not_found(e, c)
      [] h = "internal_error" -> internal_error(e, c)
      [] h = "handle_value_error" -> handle_value_error(e, c)
      [] h = "handle_key_error" -> handle_key_error(e, c)
      [] OTHER -> handle_generic_exception(e, c)

\* ------------------------------------------------------------- requests
Req(method, path, body) == [method |-> method, path |-> path, body |-> body]

\* the @app.route table: path -> view function and allowed method
RouteTable ==
    { <<"/", "index", "GET">>,
      <<"/health", "health", "GET">>,
      <<"/api/fast", "fast_endpoint", "GET">>,
      <<"/api/slow", "slow_endpoint", "GET">>,
      <<"/api/memory-intensive", "memory_intensive", "GET">>,
      <<"/api/cpu-intensive", "cpu_intensive", "GET">>,
      <<"/api/error-random", "random_error", "GET">>,
      <<"/api/external-call", "external_api_call", "GET">>,
      <<"/api/database-simulation", "database_simulation", "GET">>,
      <<"/api/chain-calls", "chain_calls", "GET">>,
      <<"/api/stats", "api_stats", "GET">>,
      <<"/load-test", "load_test", "GET">>,
      <<"/security-test", "security_test", "GET">>,
      <<"/api/security-input", "security_input", "POST">>,
      <<"/api/set-error-rate", "set_error_rate", "POST">>,
      <<"/api/get-error-rate", "get_error_rate", "GET">>,
      <<"/api/crash-test", "crash_test", "GET">>,
      <<"/api/security-error", "security_error", "GET">> }

Paths == { r[1] : r \in RouteTable }

\* the view function a request is dispatched to, or the routing exception
Route(r) ==
    IF r.path \notin Paths THEN "NotFound"
    ELSE LET e == CHOOSE x \in RouteTable : x[1] = r.path
         IN IF r.method = e[3] THEN e[2] ELSE "MethodNotAllowed"

\* the requests a client sends
Requests ==
    { Req("GET", p, NoBody) : p \in (Paths \cup {"/nope"}) \ {"/api/security-input"} }
    \cup { Req("POST", "/api/set-error-rate", b) : b \in SetBodies }
    \cup { Req("POST", "/api/security-input", b) :
             b \in {FormBody, ObjectBody(FALSE, JNull), NoJsonBody} }

\* the routing result of each request
Routed == [r \in Requests |-> Route(r)]

\* view functions that start with  request_counter += 1
Counted ==
    { "fast_endpoint", "slow_endpoint", "memory_intensive", "cpu_intensive",
      "random_error", "external_api_call", "database_simulation",
      "chain_calls", "security_input", "set_error_rate", "get_error_rate",
      "crash_test", "security_error" }

\* request.get_json(): what it raises, or the kind of value it returns.
\* Without a JSON content type it raises 415 or returns None, depending on
\* the Flask release installed.
GetJsonOutcomes(b) ==
    CASE b.kind = "badjson" -> { [exc |-> "BadRequest", isobj |-> FALSE] }
      [] b.kind = "object" -> { [exc |-> "", isobj |-> TRUE] }
      [] b.kind = "nonobject" -> { [exc |-> "", isobj |-> FALSE] }
      [] OTHER -> { [exc |-> "UnsupportedMediaType", isobj |-> FALSE],
                    [exc |-> "", isobj |-> FALSE] }

\* ------------------------------------------------- trigger_random_errors
\* error_chance = random.random() * 100, in tenths of a percent
Draws == {0, 15, 25, 999}

\* the first threshold at half the rate instead of a third
TriggerClassHalf(rate, chance) ==
    IF rate.k # "fin" THEN ""
    ELSE IF 2 * chance < rate.n THEN "ValueError"
    ELSE IF 3 * chance < 2 * rate.n THEN "KeyError"
    ELSE IF chance < rate.n THEN "TypeError"
    ELSE ""

\* the KeyError threshold is a fixed value, not a share of the rate
TriggerClassFixed(rate, chance) ==
    IF rate.k # "fin" THEN ""
    ELSE IF 3 * chance < rate.n THEN "ValueError"
    ELSE IF chance < 2 THEN "KeyError"
    ELSE IF chance < rate.n THEN "TypeError"
    ELSE ""

\* the comparisons with <= in place of <
TriggerClassInclusive(rate, chance) ==
    IF rate.k # "fin" THEN ""
    ELSE IF 3 * chance <= rate.n THEN "ValueError"
    ELSE IF 3 * chance <= 2 * rate.n THEN "KeyError"
    ELSE IF chance <= rate.n THEN "TypeError"
    ELSE ""

\* the exception class trigger_random_errors raises for a draw, "" if none
TriggerClass(rate, chance) ==
    IF rate.k # "fin" THEN ""
    ELSE IF 3 * chance < rate.n THEN "ValueError"
    ELSE IF 3 * chance < 2 * rate.n THEN "KeyError"
    ELSE IF chance < rate.n THEN "TypeError"
    ELSE ""

TriggerMessage(cls) ==
    CASE cls = "ValueError" -> "Simulated application error for APM testing"
      [] cls = "KeyError" -> "'missing_key_simulation'"
      [] OTHER -> "Simulated type error for APM monitoring"

TriggerLog(cls) ==
    CASE cls = "ValueError" -> LogRec("ERROR", "Simulated ValueError occurred", NoId)
      [] cls = "KeyError" -> LogRec("ERROR", "Simulated KeyError occurred", NoId)
      [] OTHER -> LogRec("ERROR", "Simulated TypeError occurred", NoId)

\* The fault decision over the whole draw space.  RateSteps rate values
\* divide [0, 100]; each step is split in three cells, so that the thresholds
\* error_threshold / 3 and (error_threshold * 2) / 3 fall on cell boundaries.
\* Rates and draws are both counted in cells: TriggerClass only compares
\* multiples of the two, so the unit they share does not matter.
RateSteps == 10

GridRates == 0..RateSteps
GridRate(i) == Fin(3 * i)
GridDraws == 0..(3 * RateSteps - 1)

TriggerClasses == {"ValueError", "KeyError", "TypeError"}
ZeroCount == [cls \in TriggerClasses |-> 0]

\* one more draw counted for the class it selects
Tallied(n, cls) == IF cls = "" THEN n ELSE [n EXCEPT ![cls] = @ + 1]

NewTally(a, b) == [r1 |-> a, r2 |-> b, draw |-> 0, n1 |-> ZeroCount, n2 |-> ZeroCount]
NoTally == NewTally(0, 0)

\* ---------------------------------------------------------------- state
VARIABLES
    global_error_rate,  \* app.py:91
    request_counter,    \* app.py:88
    uuids,              \* number of requests received so far
    pc,                 \* per thread: the statement it is at
    req,                \* per thread: the request being served
    cid,                \* per thread: request.request_id
    reg,                \* per thread: the value loaded by request_counter += 1
    new_error_rate,     \* per thread: local of set_error_rate
    old_error_rate,     \* per thread: local of set_error_rate
    logs,               \* per thread: the records logged for its request
    raised,             \* per thread: the exception that left the view function
    resp,               \* per thread: the response of its request
    tally               \* the fault decision applied to every draw (SpecDecide)

vars == <<global_error_rate, request_counter, uuids, pc, req, cid, reg,
          new_error_rate, old_error_rate, logs, raised, resp, tally>>

\* the state of the process once the module has been loaded
Started ==
    /\ global_error_rate = DefaultErrorRate
    /\ request_counter = 0
    /\ uuids = 0
    /\ pc = [t \in Threads |-> "idle"]
    /\ req = [t \in Threads |-> Req("GET", "/", NoBody)]
    /\ cid = [t \in Threads |-> 0]
    /\ reg = [t \in Threads |-> 0]
    /\ new_error_rate = [t \in Threads |-> NoVal]
    /\ old_error_rate = [t \in Threads |-> NoVal]
    /\ logs = [t \in Threads |-> <<>>]
    /\ raised = [t \in Threads |-> NoExc]
    /\ resp = [t \in Threads |-> NoResp]

Init ==
    /\ Started
    /\ tally = NoTally

\* after_request, then the response is sent
Complete(t, recs, r, e) ==
    /\ logs' = [logs EXCEPT ![t] = @ \o recs \o
                 << [sev |-> "INFO", msg |-> "Request completed",
                     rid |-> UuidId(cid[t]), status |-> r.status] >>]
    /\ resp' = [resp EXCEPT ![t] = r]
    /\ raised' = [raised EXCEPT ![t] = e]
    /\ pc' = [pc EXCEPT ![t] = "done"]

\* the view function returns a response
Finish(t, recs, r) == Complete(t, recs, r, NoExc)

\* the handler's response is sent without passing through after_request
RaiseSkippingAfter(t, recs, e) ==
    LET h == RunHandler(FindHandler(e.cls), e, cid[t])
    IN /\ logs' = [logs EXCEPT ![t] = @ \o recs \o <<h.log>>]
       /\ resp' = [resp EXCEPT ![t] = h.resp]
       /\ raised' = [raised EXCEPT ![t] = e]
       /\ pc' = [pc EXCEPT ![t] = "done"]

\* an exception leaves the view function: Flask runs the handler found for it
Raise(t, recs, e) ==
    LET h == RunHandler(FindHandler(e.cls), e, cid[t])
    IN Complete(t, recs \o <<h.log>>, h.resp, e)

\* str(uuid.uuid4()): a token no other request holds.  Tokens are only ever
\* compared for equality, so the least one not held by another thread stands
\* for any fresh one.
FreshUuid(t) ==
    CHOOSE u \in 1..Cardinality(Threads) :
        /\ \A o \in Threads \ {t} : cid[o] # u
        /\ \A v \in 1..(u - 1) : \E o \in Threads \ {t} : cid[o] = v

\* before_request keeping the correlation id in one module-level variable
\* that every request thread reads
BeginSharedId(t) ==
    /\ pc[t] \in {"idle", "done"}
    /\ uuids < MaxRequests
    /\ \E r \in Requests :
         LET view == Routed[r]
         IN /\ req' = [req EXCEPT ![t] = r]
            /\ pc' = [pc EXCEPT ![t] =
                        IF view \in {"NotFound", "MethodNotAllowed"} THEN "routing_error"
                        ELSE IF view \in Counted THEN "counter_store"
                        ELSE view]
            /\ reg' = [reg EXCEPT ![t] = IF view \in Counted THEN request_counter ELSE 0]
    /\ LET u == FreshUuid(t)
       IN /\ cid' = [o \in Threads |-> u]
          /\ logs' = [logs EXCEPT ![t] = << LogRec("INFO", "Request started", UuidId(u)) >>]
    /\ uuids' = uuids + 1
    /\ resp' = [resp EXCEPT ![t] = NoResp]
    /\ raised' = [raised EXCEPT ![t] = NoExc]
    /\ new_error_rate' = [new_error_rate EXCEPT ![t] = NoVal]
    /\ old_error_rate' = [old_error_rate EXCEPT ![t] = NoVal]
    /\ UNCHANGED <<global_error_rate, request_counter, tally>>

\* A request arrives: before_request, then routing; a view function that
\* starts with  request_counter += 1  is entered and performs the load
Begin(t) ==
    /\ pc[t] \in {"idle", "done"}
    /\ uuids < MaxRequests
    /\ \E r \in Requests :
         LET view == Routed[r]
         IN /\ req' = [req EXCEPT ![t] = r]
            /\ pc' = [pc EXCEPT ![t] =
                        IF view \in {"NotFound", "MethodNotAllowed"} THEN "routing_error"
                        ELSE IF view \in Counted THEN "counter_store"
                        ELSE view]
            /\ reg' = [reg EXCEPT ![t] = IF view \in Counted THEN request_counter ELSE 0]
    /\ LET u == FreshUuid(t)
       IN /\ cid' = [cid EXCEPT ![t] = u]
          /\ logs' = [logs EXCEPT ![t] = << LogRec("INFO", "Request started", UuidId(u)) >>]
    /\ uuids' = uuids + 1
    /\ resp' = [resp EXCEPT ![t] = NoResp]
    /\ raised' = [raised EXCEPT ![t] = NoExc]
    /\ new_error_rate' = [new_error_rate EXCEPT ![t] = NoVal]
    /\ old_error_rate' = [old_error_rate EXCEPT ![t] = NoVal]
    /\ UNCHANGED <<global_error_rate, request_counter, tally>>

\* a request for an unknown path or with a method the route does not allow
RoutingError(t) ==
    /\ pc[t] = "routing_error"
    /\ Raise(t, <<>>, Exc(Routed[req[t]], req[t].path))
    /\ UNCHANGED <<global_error_rate, request_counter, uuids, req, cid, reg,
                   new_error_rate, old_error_rate, tally>>

\* request_counter += 1: the store
CounterStore(t) ==
    /\ pc[t] = "counter_store"
    /\ request_counter' = reg[t] + 1
    /\ reg' = [reg EXCEPT ![t] = 0]
    /\ pc' = [pc EXCEPT ![t] = Routed[req[t]]]
    /\ UNCHANGED <<global_error_rate, uuids, req, cid,
                   new_error_rate, old_error_rate, logs, raised, resp, tally>>

\* what a step that ends its request leaves unchanged
Kept == <<global_error_rate, request_counter, uuids, req, cid, reg,
          new_error_rate, old_error_rate, tally>>

\* GET /
index(t) ==
    /\ pc[t] = "index"
    /\ \E chance \in Draws :
         LET cls == TriggerClass(global_error_rate, chance)
             called == LogRec("INFO", "Dashboard accessed", NoId)
         IN IF cls # ""
            THEN Raise(t, <<called, TriggerLog(cls)>>, Exc(cls, TriggerMessage(cls)))
            ELSE Finish(t, <<called>>, HtmlResp)
    /\ UNCHANGED Kept

\* GET /health
health(t) ==
    /\ pc[t] = "health"
    /\ \E unhealthy \in BOOLEAN :
         LET called == LogRec("INFO", "Health check called", NoId)
         IN IF unhealthy
            THEN Finish(t, <<called, LogRec("WARNING",
                     "Health check failed - simulated unhealthy state", NoId)>>,
                     [BaseResp EXCEPT !.status = 503])
            ELSE Finish(t, <<called>>, BaseResp)
    /\ UNCHANGED Kept

\* GET /load-test
load_test(t) ==
    /\ pc[t] = "load_test"
    /\ Finish(t, <<>>, HtmlResp)
    /\ UNCHANGED Kept

\* GET /security-test
security_test(t) ==
    /\ pc[t] = "security_test"
    /\ Finish(t, <<LogRec("INFO", "Security test page accessed", NoId)>>, HtmlResp)
    /\ UNCHANGED Kept

\* GET /api/stats
api_stats(t) ==
    /\ pc[t] = "api_stats"
    /\ Finish(t, <<LogRec("INFO", "API stats requested", NoId)>>,
              [BaseResp EXCEPT !.total = request_counter, !.cur = global_error_rate])
    /\ UNCHANGED Kept

\* GET /api/fast, up to trigger_random_errors()
fast_trigger(t) ==
    /\ pc[t] = "fast_endpoint"
    /\ \E chance \in Draws :
         LET cls == TriggerClass(global_error_rate, chance)
             called == LogRec("INFO", "Fast endpoint called", NoId)
         IN IF cls # ""
            THEN Raise(t, <<called, TriggerLog(cls)>>, Exc(cls, TriggerMessage(cls)))
            ELSE /\ logs' = [logs EXCEPT ![t] = Append(@, called)]
                 /\ pc' = [pc EXCEPT ![t] = "fast_return"]
                 /\ UNCHANGED <<raised, resp>>
    /\ UNCHANGED Kept

\* GET /api/fast, the optional slowdown and the return
fast_return(t) ==
    /\ pc[t] = "fast_return"
    /\ \E hiccup \in BOOLEAN :
         Finish(t,
                IF hiccup
                THEN <<LogRec("WARNING", "Fast endpoint experiencing simulated slowdown",
                              CounterField)>>
                ELSE <<>>,
                OkResp(request_counter))
    /\ UNCHANGED Kept

\* GET /api/slow
slow_endpoint(t) ==
    /\ pc[t] = "slow_endpoint"
    /\ \E outcome \in {"timeout", "processing_error", "ok"} :
         LET called == LogRec("INFO", "Slow endpoint called", NoId)
         IN CASE outcome = "timeout" ->
                   Finish(t, <<called, LogRec("ERROR", "Slow endpoint timeout simulation",
                                              CounterField)>>,
                          ErrResp(504, "Request timed out during processing"))
              [] outcome = "processing_error" ->
                   Raise(t, <<called, LogRec("ERROR", "Slow endpoint processing error",
                                             CounterField)>>,
                         Exc("Exception", "Simulated processing error during slow operation"))
              [] OTHER -> Finish(t, <<called>>, OkResp(request_counter))
    /\ UNCHANGED Kept

\* GET /api/memory-intensive
memory_intensive(t) ==
    /\ pc[t] = "memory_intensive"
    /\ \E outcome \in {"memory_error", "shortage", "ok"} :
         LET called == LogRec("INFO", "Memory intensive endpoint called", NoId)
         IN CASE outcome = "memory_error" ->
                   Raise(t, <<called, LogRec("ERROR", "Memory allocation failed simulation",
                                             CounterField)>>,
                         Exc("MemoryError", "Simulated out of memory error for APM testing"))
              [] outcome = "shortage" ->
                   Finish(t, <<called, LogRec("CRITICAL", "Critical memory shortage simulation",
                                              CounterField)>>,
                          ErrResp(507, "Out of memory - unable to allocate resources"))
              [] OTHER ->
                   Finish(t, <<called, LogRec("INFO", "Memory operation completed successfully",
                                              CounterField)>>,
                          OkResp(request_counter))
    /\ UNCHANGED Kept

\* GET /api/cpu-intensive
cpu_intensive(t) ==
    /\ pc[t] = "cpu_intensive"
    /\ \E outcome \in {"overflow", "slowdown", "ok"} :
         LET called == LogRec("INFO", "CPU intensive endpoint called", NoId)
             completed == LogRec("INFO", "CPU operation completed successfully", CounterField)
         IN CASE outcome = "overflow" ->
                   Raise(t, <<called, LogRec("ERROR", "CPU computation overflow simulation",
                                             CounterField)>>,
                         Exc("OverflowError",
                             "Simulated arithmetic overflow during CPU intensive operation"))
              [] outcome = "slowdown" ->
                   Finish(t, <<called, LogRec("WARNING", "CPU computation slowdown detected",
                                              CounterField), completed>>,
                          OkResp(request_counter))
              [] OTHER -> Finish(t, <<called, completed>>, OkResp(request_counter))
    /\ UNCHANGED Kept

\* GET /api/error-random
random_error(t) ==
    /\ pc[t] = "random_error"
    /\ \E error_type \in {"success", "400", "404", "500", "timeout"} :
         LET called == LogRec("INFO", "Random error endpoint called", NoId)
         IN CASE error_type = "success" -> Finish(t, <<called>>, OkResp(request_counter))
              [] error_type = "400" ->
                   Finish(t, <<called, LogRec("ERROR", "Simulated 400 error", NoId)>>,
                          ErrResp(400, "Bad Request - Simulated client error"))
              [] error_type = "404" ->
                   Finish(t, <<called, LogRec("ERROR", "Simulated 404 error", NoId)>>,
                          ErrResp(404, "Not Found - Simulated not found error"))
              [] error_type = "500" ->
                   Finish(t, <<called, LogRec("ERROR", "Simulated 500 error", NoId)>>,
                          ErrResp(500, "Internal Server Error - Simulated server error"))
              [] OTHER ->
                   Finish(t, <<called, LogRec("ERROR", "Simulated timeout", NoId)>>,
                          ErrResp(504, "Request timed out"))
    /\ UNCHANGED Kept

\* GET /api/external-call; the outcome of requests.get is the environment's
external_api_call(t) ==
    /\ pc[t] = "external_api_call"
    /\ \E outcome \in {"network_issue", "bad_response", "ok", "timeout",
                       "connection_error", "request_exception"} :
         LET called == LogRec("INFO", "External API call started", NoId)
             n == request_counter
         IN CASE outcome = "network_issue" ->
                   Finish(t, <<called, LogRec("ERROR", "Simulated network connectivity issue",
                                              CounterField)>>,
                          ErrRespId(503, "Network connectivity issue - unable to reach external service", n))
              [] outcome = "bad_response" ->
                   Finish(t, <<called, LogRec("WARNING", "External API returned unexpected response",
                                              CounterField)>>,
                          ErrRespId(502, "External API returned malformed response", n))
              [] outcome = "timeout" ->
                   Finish(t, <<called, LogRec("ERROR", "External API call timed out",
                                              CounterField)>>,
                          ErrRespId(504, "External API call timed out", n))
              [] outcome = "connection_error" ->
                   Finish(t, <<called, LogRec("ERROR", "External API connection failed",
                                              CounterField)>>,
                          ErrRespId(503, "Failed to connect to external API", n))
              [] outcome = "request_exception" ->
                   Finish(t, <<called, LogRec("ERROR", "External API call failed",
                                              CounterField)>>,
                          ErrRespId(500, "External API call failed", n))
              [] OTHER ->
                   Finish(t, <<called, LogRec("INFO", "External API call completed successfully",
                                              CounterField)>>,
                          OkResp(n))
    /\ UNCHANGED Kept

\* GET /api/database-simulation
database_simulation(t) ==
    /\ pc[t] = "database_simulation"
    /\ \E db_error \in BOOLEAN :
         LET called == LogRec("INFO", "Database simulation endpoint called", NoId)
         IN IF db_error
            THEN Finish(t, <<called, LogRec("ERROR", "Simulated database error", NoId)>>,
                        ErrRespId(500, "Database connection failed", request_counter))
            ELSE Finish(t, <<called>>, OkResp(request_counter))
    /\ UNCHANGED Kept

services == <<"user-service", "order-service", "payment-service", "notification-service">>

\* GET /api/chain-calls; failed is the set of services whose call fails
chain_calls(t) ==
    /\ pc[t] = "chain_calls"
    /\ \E failed \in SUBSET {services[i] : i \in 1..Len(services)} :
         LET called == LogRec("INFO", "Chain calls endpoint called", NoId)
             bad == SelectSeq(services, LAMBDA s : s \in failed)
             errors == [i \in 1..Len(bad) |-> LogRec("ERROR", bad[i], NoId)]
         IN Finish(t, <<called>> \o errors,
                   [OkResp(request_counter) EXCEPT !.message = "Service chain completed"])
    /\ UNCHANGED Kept

\* POST /api/security-input
security_input(t) ==
    /\ pc[t] = "security_input"
    /\ IF req[t].body.kind = "form"
       THEN \E input_type \in {"general", "sql"} :
              Finish(t, <<LogRec("INFO", "Security test input received", CounterField)>>
                        \o (IF input_type = "sql"
                            THEN <<LogRec("INFO", "SQL input test", CounterField)>>
                            ELSE <<>>),
                     OkResp(request_counter))
       ELSE \E g \in GetJsonOutcomes(req[t].body) :
              IF g.exc # "" THEN Raise(t, <<>>, Exc(g.exc, "get_json failed"))
              ELSE IF ~g.isobj
              THEN Raise(t, <<>>, Exc("AttributeError", "object has no attribute 'get'"))
              ELSE Finish(t, <<LogRec("INFO", "Security test input received", CounterField)>>,
                          OkResp(request_counter))
    /\ UNCHANGED Kept

\* GET /api/security-error
security_error(t) ==
    /\ pc[t] = "security_error"
    /\ \E error_type \in {"auth_failure", "permission_denied", "token_expired",
                          "invalid_credentials"} :
         Finish(t, <<LogRec("ERROR", "Security error simulated", CounterField)>>,
                IF error_type = "permission_denied"
                THEN ErrResp(403, "Access denied")
                ELSE ErrResp(401, error_type))
    /\ UNCHANGED Kept

crash_types ==
    {"division_by_zero", "null_reference", "index_error", "attribute_error", "import_error"}

\* the exception each crash variant raises
CrashException(crash_type) ==
    CASE crash_type = "division_by_zero" -> Exc("ZeroDivisionError", "division by zero")
      [] crash_type = "null_reference" ->
            Exc("AttributeError", "'NoneType' object has no attribute 'some_attribute'")
      [] crash_type = "index_error" -> Exc("IndexError", "list index out of range")
      [] crash_type = "attribute_error" ->
            Exc("AttributeError", "'str' object has no attribute 'nonexistent_method'")
      [] OTHER -> Exc("ModuleNotFoundError", "No module named 'nonexistent_module'")

\* GET /api/crash-test
crash_test(t) ==
    /\ pc[t] = "crash_test"
    /\ \E crash_type \in crash_types :
         Raise(t, <<LogRec("WARNING", "Crash test endpoint called", CounterField)>>,
               CrashException(crash_type))
    /\ UNCHANGED Kept

\* GET /api/get-error-rate
get_error_rate(t) ==
    /\ pc[t] = "get_error_rate"
    /\ Finish(t, <<LogRec("INFO", "Error rate requested", CounterField)>>,
              [OkResp(request_counter) EXCEPT !.cur = global_error_rate])
    /\ UNCHANGED Kept

\* data.get('error_rate') without a default: None for a missing key
ErrorRateOfNoDefault(b) == IF b.has THEN b.val ELSE JNull

\* data.get('error_rate', 3.0)
ErrorRateOf(b) == IF b.has THEN b.val ELSE JFloat(30)

\* POST /api/set-error-rate: get_json, float(), the range check and
\* old_error_rate = global_error_rate
set_validate(t) ==
    /\ pc[t] = "set_error_rate"
    /\ \E g \in GetJsonOutcomes(req[t].body) :
         LET b == req[t].body
             f == PyFloat(ErrorRateOf(b))
         IN IF g.exc # ""
            THEN Raise(t, <<>>, Exc(g.exc, "get_json failed")) /\ UNCHANGED Kept
            ELSE IF ~g.isobj
            THEN Raise(t, <<>>, Exc("AttributeError", "object has no attribute 'get'"))
                 /\ UNCHANGED Kept
            ELSE IF ~f.ok /\ f.exc \in {"TypeError", "ValueError"}
            THEN Finish(t, <<LogRec("ERROR", "Error setting error rate", CounterField)>>,
                        [ErrResp(400, "Invalid error rate format")
                           EXCEPT !.message = "could not convert to float"])
                 /\ UNCHANGED Kept
            ELSE IF ~f.ok
            THEN Raise(t, <<>>, Exc(f.exc, "int too large to convert to float"))
                 /\ UNCHANGED Kept
            ELSE IF InRange(f.val)
            THEN /\ new_error_rate' = [new_error_rate EXCEPT ![t] = f.val]
                 /\ old_error_rate' = [old_error_rate EXCEPT ![t] = global_error_rate]
                 /\ pc' = [pc EXCEPT ![t] = "set_write"]
                 /\ UNCHANGED <<global_error_rate, request_counter, uuids, req, cid,
                                reg, logs, raised, resp, tally>>
            ELSE Finish(t, <<LogRec("WARNING", "Invalid error rate provided", CounterField)>>,
                        [ErrResp(400, "Error rate must be between 0 and 100")
                           EXCEPT !.new = f.val])
                 /\ UNCHANGED Kept

\* the assignment with the wrong local on its right-hand side
set_write_old(t) ==
    /\ pc[t] = "set_write"
    /\ global_error_rate' = old_error_rate[t]
    /\ pc' = [pc EXCEPT ![t] = "set_return"]
    /\ UNCHANGED <<request_counter, uuids, req, cid, reg, new_error_rate,
                   old_error_rate, logs, raised, resp, tally>>

\* POST /api/set-error-rate:  global_error_rate = new_error_rate
set_write(t) ==
    /\ pc[t] = "set_write"
    /\ global_error_rate' = new_error_rate[t]
    /\ pc' = [pc EXCEPT ![t] = "set_return"]
    /\ UNCHANGED <<request_counter, uuids, req, cid, reg, new_error_rate,
                   old_error_rate, logs, raised, resp, tally>>

\* POST /api/set-error-rate: the log record and the 200 response, which
\* read global_error_rate again
set_return(t) ==
    /\ pc[t] = "set_return"
    /\ Finish(t, <<LogRec("INFO", "Global error rate updated", CounterField)>>,
              [OkResp(request_counter) EXCEPT !.old = old_error_rate[t],
                                              !.new = global_error_rate])
    /\ UNCHANGED Kept

\* a restart that finds the rate of the previous run (a persisted setting)
RestartKeepingRate ==
    /\ request_counter' = 0
    /\ uuids' = 0
    /\ pc' = [t \in Threads |-> "idle"]
    /\ req' = [t \in Threads |-> Req("GET", "/", NoBody)]
    /\ cid' = [t \in Threads |-> 0]
    /\ reg' = [t \in Threads |-> 0]
    /\ new_error_rate' = [t \in Threads |-> NoVal]
    /\ old_error_rate' = [t \in Threads |-> NoVal]
    /\ logs' = [t \in Threads |-> <<>>]
    /\ raised' = [t \in Threads |-> NoExc]
    /\ resp' = [t \in Threads |-> NoResp]
    /\ UNCHANGED <<global_error_rate, tally>>

\* the process is stopped and started again: the module is loaded anew and
\* the requests in flight are lost
Restart ==
    /\ global_error_rate' = DefaultErrorRate
    /\ request_counter' = 0
    /\ uuids' = 0
    /\ pc' = [t \in Threads |-> "idle"]
    /\ req' = [t \in Threads |-> Req("GET", "/", NoBody)]
    /\ cid' = [t \in Threads |-> 0]
    /\ reg' = [t \in Threads |-> 0]
    /\ new_error_rate' = [t \in Threads |-> NoVal]
    /\ old_error_rate' = [t \in Threads |-> NoVal]
    /\ logs' = [t \in Threads |-> <<>>]
    /\ raised' = [t \in Threads |-> NoExc]
    /\ resp' = [t \in Threads |-> NoResp]
    /\ UNCHANGED tally

Next ==
    \/ Restart
    \/ \E t \in Threads :
        \/ Begin(t)
        \/ RoutingError(t)
        \/ CounterStore(t)
        \/ index(t)
        \/ health(t)
        \/ load_test(t)
        \/ security_test(t)
        \/ api_stats(t)
        \/ fast_trigger(t)
        \/ fast_return(t)
        \/ slow_endpoint(t)
        \/ memory_intensive(t)
        \/ cpu_intensive(t)
        \/ random_error(t)
        \/ external_api_call(t)
        \/ database_simulation(t)
        \/ chain_calls(t)
        \/ security_input(t)
        \/ security_error(t)
        \/ crash_test(t)
        \/ get_error_rate(t)
        \/ set_validate(t)
        \/ set_write(t)
        \/ set_return(t)

Spec == Init /\ [][Next]_vars

\* ------------------------------------------- the fault decision on its own
server == <<global_error_rate, request_counter, uuids, pc, req, cid, reg,
            new_error_rate, old_error_rate, logs, raised, resp>>

\* two rates r1 <= r2 of the grid, no draw made yet
DecideInit ==
    /\ Started
    /\ tally \in {NewTally(a, b) : a \in GridRates, b \in GridRates}
    /\ tally.r1 <= tally.r2

\* trigger_random_errors() decides the next draw of the grid under each of
\* the two rates
trigger_random_errors ==
    /\ tally.draw \in GridDraws
    /\ tally' = [tally EXCEPT
                   !.draw = @ + 1,
                   !.n1 = Tallied(@, TriggerClass(GridRate(tally.r1), tally.draw)),
                   !.n2 = Tallied(@, TriggerClass(GridRate(tally.r2), tally.draw))]
    /\ UNCHANGED server

DecideNext == trigger_random_errors

SpecDecide == DecideInit /\ [][DecideNext]_vars

\* ---------------------------------------------------------------- claims
IsSet(r) == r.method = "POST" /\ r.path = "/api/set-error-rate"
IsGet(r) == r.method = "GET" /\ r.path = "/api/get-error-rate"
ServedBy(t, view) == pc[t] = "done" /\ Routed[req[t]] = view

\* the request carries  {"error_rate": v}  with v a JSON number
SendsNumber(r) == IsSet(r) /\ r.body.kind = "object" /\ r.body.has /\ IsJsonNumber(r.body.val)
\* ... with v a finite number within [0, 100] / outside [0, 100]
SendsValid(r) ==
    /\ SendsNumber(r) /\ IsFiniteJsonNumber(r.body.val)
    /\ 0 <= JsonTenths(r.body.val) /\ JsonTenths(r.body.val) <= 1000
SendsOutOfRange(r) ==
    /\ SendsNumber(r)
    /\ \/ r.body.val.ty \in {"bigint", "inf"}
       \/ IsFiniteJsonNumber(r.body.val)
          /\ (JsonTenths(r.body.val) < 0 \/ JsonTenths(r.body.val) > 1000)

\* a set-error-rate request with a value in [0,100] stores exactly that value
C1_StoresExactly(t) ==
    (set_write(t) /\ SendsValid(req[t]))
      => global_error_rate' = Fin(JsonTenths(req[t].body.val))

\* get-error-rate answers 200 with the stored rate
C1_ReturnsStored(t) ==
    get_error_rate(t)
      => (resp'[t].status = 200 /\ resp'[t].cur = global_error_rate)

\* only the write of a set-error-rate request changes the stored rate
C1_OnlySetWrites ==
    (global_error_rate' # global_error_rate)
      => (Restart \/ \E s \in Threads : set_write(s))

\* C1: a successful set-error-rate with error_rate = v in [0,100] followed,
\* with no other set in between, by get-error-rate returns exactly v: the
\* write of such a request stores exactly v, nothing but the write of a
\* set-error-rate request (or a restart of the process) changes the stored rate, and get-error-rate answers
\* 200 with the rate stored at that moment.
C1_SetThenGet ==
    [][ (\A t \in Threads : C1_StoresExactly(t) /\ C1_ReturnsStored(t))
        /\ C1_OnlySetWrites ]_vars

C1_Witness ==
    \E s, g \in Threads :
        /\ ServedBy(s, "set_error_rate") /\ resp[s].status = 200
        /\ req[s].body = ObjectBody(TRUE, JFloat(15))
        /\ ServedBy(g, "get_error_rate") /\ resp[g].cur = Fin(15)

\* C2: a set-error-rate call whose numeric value lies outside [0,100] is
\* answered 400 and changes no state a later request can read: no step of
\* such a request changes global_error_rate or request_counter.
C2_RejectedLeavesNoTrace ==
    [][ \A t \in Threads :
          (SendsOutOfRange(req[t]) /\ pc[t] \notin {"idle", "done"} /\ pc'[t] # pc[t]
             /\ ~Restart)
            => /\ global_error_rate' = global_error_rate
               /\ request_counter' = request_counter
               /\ (pc'[t] = "done" => resp'[t].status = 400)
      ]_vars

\* C3: a set-error-rate request whose body is malformed (no JSON body, a JSON
\* value that is not an object, an error_rate that is not a number) never
\* reaches the write of the stored rate and is answered 400.
Malformed(b) ==
    \/ b.kind \in {"nojson", "badjson", "nonobject"}
    \/ b.kind = "object" /\ b.has /\ ~IsJsonNumber(b.val)

C3_MalformedRejected ==
    \A t \in Threads :
        (IsSet(req[t]) /\ Malformed(req[t].body))
          => /\ pc[t] \notin {"set_write", "set_return"}
             /\ (pc[t] = "done" => resp[t].status = 400)

\* C4: in every reachable state the stored global error rate is a number
\* within [0,100].
C4_RateInRange ==
    /\ global_error_rate.k = "fin"
    /\ 0 <= global_error_rate.n
    /\ global_error_rate.n <= 1000

C4_Witness ==
    /\ global_error_rate = Fin(1000)
    /\ \E t \in Threads :
         /\ ServedBy(t, "set_error_rate") /\ resp[t].status = 400
         /\ req[t].body = ObjectBody(TRUE, JInt(101))

\* C5: when every thread has completed a successful set-error-rate, the stored
\* rate is the value written by one of them.
AllSetDone ==
    \A t \in Threads : ServedBy(t, "set_error_rate") /\ resp[t].status = 200

C5_OneOfTheInputs ==
    AllSetDone => \E t \in Threads : global_error_rate = new_error_rate[t]

\* the setters ran concurrently (each read the default before any of them
\* wrote) and set distinct values, none of them the default
C5_Witness ==
    /\ AllSetDone
    /\ \A t \in Threads : old_error_rate[t] = DefaultErrorRate
                          /\ new_error_rate[t] # DefaultErrorRate
    /\ \A t, o \in Threads : t # o => new_error_rate[t] # new_error_rate[o]

\* C6: each successful set-error-rate reports as old_error_rate the value
\* stored immediately before its own write took effect and as new_error_rate
\* the value it wrote.
C6_OldNewLinearizable ==
    [][ \A t \in Threads :
          /\ set_write(t) => old_error_rate[t] = global_error_rate
          /\ set_return(t) => /\ resp'[t].old = old_error_rate[t]
                              /\ resp'[t].new = new_error_rate[t]
      ]_vars

\* C7: every response contains the correlation id assigned when the request
\* began, and every log record of the request carries that id.
C7_CorrelationEverywhere ==
    \A t \in Threads :
        pc[t] = "done"
          => /\ resp[t].rid = UuidId(cid[t])
             /\ \A i \in 1..Len(logs[t]) : logs[t][i].rid = UuidId(cid[t])

\* C8: GET /api/crash-test is answered 500 with a JSON error body, whichever
\* crash variant was drawn.
C8_CrashTestIs500 ==
    \A t \in Threads :
        ServedBy(t, "crash_test")
          => /\ resp[t].status = 500
             /\ resp[t].json
             /\ resp[t].error # ""

C8_Witness ==
    \E t \in Threads :
        /\ ServedBy(t, "crash_test")
        /\ raised[t].cls = "IndexError"
        /\ resp[t].status = 500

\* C9: every response with status >= 400 is preceded by a log record of
\* severity ERROR or CRITICAL that carries the request's correlation id.
C9_FailureLogged ==
    \A t \in Threads :
        (pc[t] = "done" /\ resp[t].status >= 400)
          => \E i \in 1..Len(logs[t]) :
                /\ logs[t][i].sev \in {"ERROR", "CRITICAL"}
                /\ logs[t][i].rid = UuidId(cid[t])

\* C10: a fault that no more specific handler takes is logged at CRITICAL and
\* answered 500 with a generic message and the fault's type name only.
C10_GenericHandler ==
    \A t \in Threads :
        (pc[t] = "done" /\ raised[t] # NoExc
           /\ FindHandler(raised[t].cls) = "handle_generic_exception")
          => /\ resp[t].status = 500
             /\ resp[t].etype = raised[t].cls
             /\ resp[t].message = ""
             /\ \E i \in 1..Len(logs[t]) : logs[t][i].sev = "CRITICAL"

\* C11: the global error rate scales every simulated failure of /api/fast,
\* /api/slow, /api/memory-intensive and /api/cpu-intensive, so with the rate
\* at 0 none of these endpoints fails: the fault decision of /api/fast raises
\* nothing and the other three answer 200.
C11_RateScalesEveryEndpoint ==
    [][ \A t \in Threads :
          global_error_rate = Fin(0)
            => /\ fast_trigger(t) => pc'[t] = "fast_return"
               /\ (slow_endpoint(t) \/ memory_intensive(t) \/ cpu_intensive(t))
                    => resp'[t].status = 200
      ]_vars

\* the fault decision has been applied to every draw of the grid
TallyComplete == tally.draw = 3 * RateSteps

\* C12: for every non-zero rate r the three classes of the fault decision
\* are selected in the same proportion 1 : 1 : 1: each of ValueError, KeyError
\* and TypeError is selected by exactly one third of the draws that fall
\* below r.
C12_EqualThirds ==
    (TallyComplete /\ tally.r1 > 0)
      => LET below == {d \in GridDraws : d < GridRate(tally.r1).n}
         IN \A cls \in TriggerClasses : 3 * tally.n1[cls] = Cardinality(below)

C12_Witness ==
    /\ TallyComplete
    /\ tally.r1 = 7
    /\ \A cls \in TriggerClasses : tally.n1[cls] = 7

\* C13: for rates r1 <= r2 each class of the fault decision is selected at r2
\* by at least as many draws of the uniform draw space as at r1.
C13_Monotone ==
    TallyComplete
      => \A cls \in TriggerClasses : tally.n1[cls] <= tally.n2[cls]

C13_Witness ==
    /\ TallyComplete
    /\ tally.r1 > 0 /\ tally.r1 < tally.r2
    /\ \A cls \in TriggerClasses :
         tally.n1[cls] > 0 /\ tally.n1[cls] < tally.n2[cls]

\* the view logged a simulated failure (both views log theirs at ERROR)
SimulatedFailure(t) ==
    \E i \in 1..Len(logs[t]) : logs[t][i].sev = "ERROR"

\* C14: GET /api/database-simulation and GET /api/chain-calls answer 200
\* when no simulated failure occurs and 500 whenever one occurs (for
\* chain-calls: whenever any of the four service calls fails).
C14_FailureIs500 ==
    \A t \in Threads :
        (ServedBy(t, "database_simulation") \/ ServedBy(t, "chain_calls"))
          => resp[t].status = (IF SimulatedFailure(t) THEN 500 ELSE 200)

\* C15: the error rate is the only mutable state shared between requests: no
\* step of any handler changes another process-wide variable.
C15_OnlyRateShared ==
    [][ Restart \/ request_counter' = request_counter ]_vars

\* what belongs to the request thread t serves
Local(t) == <<pc[t], req[t], cid[t], reg[t], new_error_rate[t],
              old_error_rate[t], logs[t], raised[t], resp[t]>>

\* the step is taken by the request of thread t
StepOf(t) == ~Restart /\ Local(t)' # Local(t)

\* C15 (amended): global_error_rate and request_counter are the only mutable
\* state shared between requests: a step of one request changes, besides
\* these two, only what belongs to that request, and every change of the two
\* is the store of a  request_counter += 1  or the write of set_error_rate.
C15_RateAndCounterShared ==
    [][ /\ \A t \in Threads :
              StepOf(t) => \A o \in Threads \ {t} : Local(o)' = Local(o)
        /\ (request_counter' # request_counter)
              => (Restart \/ \E t \in Threads : CounterStore(t))
        /\ (global_error_rate' # global_error_rate)
              => (Restart \/ \E t \in Threads : set_write(t))
      ]_vars

\* one request is between the read and the write of set_error_rate while the
\* other has completed and been counted after it
C15_Witness ==
    \E t, o \in Threads :
        /\ pc[t] = "set_write"
        /\ pc[o] = "done" /\ Routed[req[o]] \in Counted
        /\ request_counter = 2

\* the positions of the records of thread t's request with message msg
RecordsOf(t, msg) == {i \in 1..Len(logs[t]) : logs[t][i].msg = msg}

\* C16: for every request, whatever its outcome, exactly one 'Request
\* started' record is emitted, first, and exactly one 'Request completed'
\* record, last, both with the request's correlation id, and the status_code
\* of the completion record is the status of the response sent.
C16_StartedAndCompleted ==
    \A t \in Threads :
        /\ pc[t] # "idle"
             => /\ RecordsOf(t, "Request started") = {1}
                /\ logs[t][1].rid = UuidId(cid[t])
        /\ pc[t] \notin {"idle", "done"} => RecordsOf(t, "Request completed") = {}
        /\ pc[t] = "done"
             => /\ RecordsOf(t, "Request completed") = {Len(logs[t])}
                /\ logs[t][Len(logs[t])].rid = UuidId(cid[t])
                /\ logs[t][Len(logs[t])].status = resp[t].status

\* an unknown route and a failed validation, each with its completion record
C16_Witness ==
    \E t, o \in Threads :
        /\ pc[t] = "done" /\ pc[o] = "done"
        /\ raised[t].cls = "NotFound"
        /\ logs[t][Len(logs[t])].msg = "Request completed"
        /\ logs[t][Len(logs[t])].status = 404
        /\ IsSet(req[o]) /\ raised[o] = NoExc
        /\ logs[o][Len(logs[o])].msg = "Request completed"
        /\ logs[o][Len(logs[o])].status = 400

\* C17: after process start, and after any restart whatever was set before
\* it, the stored error rate is 3.0: it is 3.0 as long as no request has
\* arrived since the start, every restart leaves it at 3.0, and a
\* get-error-rate that is the first request since the start returns 3.0; a
\* get-error-rate never changes the stored rate.
C17_DefaultAfterStart ==
    [][ /\ uuids = 0 => global_error_rate = Fin(30)
        /\ Restart => global_error_rate' = Fin(30)
        /\ \A t \in Threads :
             get_error_rate(t)
               => /\ global_error_rate' = global_error_rate
                  /\ uuids = 1 => (resp'[t].status = 200 /\ resp'[t].cur = Fin(30))
      ]_vars

\* the first request since the start was a get-error-rate
C17_Witness ==
    \E t \in Threads :
        /\ uuids = 1
        /\ ServedBy(t, "get_error_rate")
        /\ resp[t].cur = Fin(30)

\* the messages the six error handlers log
HandlerMessages ==
    {"Bad request error", "Not found error", "Internal server error",
     "ValueError occurred", "KeyError occurred", "Unhandled exception occurred"}

\* exactly one handler ran for the fault of thread t's request and its
\* response is a JSON error body
HandledOnce(t) ==
    /\ Cardinality({i \in 1..Len(logs[t]) : logs[t][i].msg \in HandlerMessages}) = 1
    /\ resp[t].json /\ resp[t].error # ""

\* C18: every fault is handled by exactly one handler and yields one JSON
\* response whose status follows the table: ValueError and KeyError give 400,
\* an unknown route 404, every other fault (the TypeError of the fault
\* decision, any other routing or HTTP fault) 500.
C18_FaultTable ==
    \A t \in Threads :
        (pc[t] = "done" /\ raised[t] # NoExc)
          => /\ HandledOnce(t)
             /\ resp[t].status =
                  (IF raised[t].cls \in {"ValueError", "KeyError"} THEN 400
                   ELSE IF raised[t].cls = "NotFound" THEN 404
                   ELSE 500)

\* C18 (amended): every fault is handled by exactly one handler and yields
\* one JSON response whose status follows the table: ValueError, KeyError and
\* the bad-request HTTP fault (a malformed JSON body) give 400, an unknown
\* route 404, every other fault (the TypeError of the fault decision, a
\* method the route does not allow, an unsupported media type) 500.
C18_FaultTableWithBadRequest ==
    \A t \in Threads :
        (pc[t] = "done" /\ raised[t] # NoExc)
          => /\ HandledOnce(t)
             /\ resp[t].status =
                  (IF raised[t].cls \in {"ValueError", "KeyError", "BadRequest"} THEN 400
                   ELSE IF raised[t].cls = "NotFound" THEN 404
                   ELSE 500)

\* a malformed JSON body answered 400 and a method the route does not allow
\* answered 500
C18_Witness ==
    \E t, o \in Threads :
        /\ pc[t] = "done" /\ raised[t].cls = "BadRequest" /\ resp[t].status = 400
        /\ pc[o] = "done" /\ raised[o].cls = "MethodNotAllowed" /\ resp[o].status = 500

\* C19: with the rate at 0 trigger_random_errors raises for no draw, so
\* /api/fast never fails because of it; with the rate at 100 it raises for
\* every draw, so /api/fast never answers 200.
C19_Extremes ==
    [][ \A t \in Threads :
          fast_trigger(t)
            => /\ global_error_rate = Fin(0)
                    => (pc'[t] = "fast_return" /\ raised'[t] = NoExc)
               /\ global_error_rate = Fin(1000)
                    => /\ pc'[t] = "done"
                       /\ raised'[t].cls \in TriggerClasses
                       /\ resp'[t].status \in {400, 500}
      ]_vars

\* /api/fast served with the rate at 100: the fault decision raised
C19_Witness ==
    \E t \in Threads :
        /\ global_error_rate = Fin(1000)
        /\ ServedBy(t, "fast_endpoint")
        /\ raised[t].cls = "TypeError"
        /\ resp[t].status = 500

\* the request is a set-error-rate whose JSON object has no error_rate key
SetsNothing(r) == IsSet(r) /\ r.body = ObjectBody(FALSE, JNull)

\* C20: a POST /api/set-error-rate whose JSON object has no error_rate key
\* is not rejected: it passes validation as 3.0, overwrites whatever rate was
\* stored with 3.0 and is answered 200.
C20_MissingKeyIsDefault ==
    [][ \A t \in Threads :
          SetsNothing(req[t])
            => /\ set_validate(t) => (pc'[t] = "set_write" /\ new_error_rate'[t] = Fin(30))
               /\ set_write(t) => global_error_rate' = Fin(30)
               /\ set_return(t) => resp'[t].status = 200
      ]_vars

\* the request found another rate stored and left 3.0
C20_Witness ==
    \E t \in Threads :
        /\ ServedBy(t, "set_error_rate") /\ SetsNothing(req[t])
        /\ resp[t].status = 200
        /\ resp[t].old = Fin(1000)
        /\ resp[t].new = Fin(30)
        /\ global_error_rate = Fin(30)

\* the response of thread t's request carries a numeric request_id
Numbered(t) == pc[t] = "done" /\ resp[t].rid.kind = "counter"

\* no two requests were given the same numeric request_id
C21_UniqueIds ==
    \A t, o \in Threads :
        (t # o /\ Numbered(t) /\ Numbered(o)) => resp[t].rid # resp[o].rid

\* the  request_counter += 1  of a counted request raises the counter by one
C21_NoLostIncrement(t) ==
    CounterStore(t) => request_counter' = request_counter + 1

\* C21: under any interleaving of concurrently served requests the numeric
\* request_id in a counted endpoint's response is unique to that request, and
\* no increment is lost: every counted request raises the counter by exactly
\* one, so that /api/stats, which reports the counter as total_requests,
\* reports the number of counted requests served.
C21_UniqueAndCounted ==
    [][ /\ C21_UniqueIds
        /\ \A t \in Threads :
             /\ C21_NoLostIncrement(t)
             /\ api_stats(t) => resp'[t].total = request_counter
      ]_vars

====
